---- MODULE Spec2Model ----
(***************************************************************************)
(* Root-cell descriptors of the Jailhouse partitioning hypervisor           *)
(* (configs/arm64/zynqmp-kv260.c and the RK3566/RK3568 configuration) and   *)
(* the validate / encode / hand-to-loader pipeline that consumes them.      *)
(*                                                                         *)
(* A 64-bit quantity (__u64) is the pair <<hi, lo>> of value                *)
(* hi * 2^24 + lo with 0 <= lo < 2^24: the low six hexadecimal digits of    *)
(* the C literal are lo, the digits above them are hi.  A 32-bit            *)
(* pin_bitmap word is the pair <<hi16, lo16>>.                              *)
(***************************************************************************)
EXTENDS Integers, Sequences, FiniteSets, TLC

(* ------------------------------------------------------------ __u64 ---- *)

LIMB == \h1000000

U64(hi, lo) == <<hi, lo>>

U64Zero == U64(0, 0)

U64Add(a, b) ==
  LET lo == a[2] + b[2]
  IN  U64(a[1] + b[1] + (lo \div LIMB), lo % LIMB)

U64Lt(a, b) == a[1] < b[1] \/ (a[1] = b[1] /\ a[2] < b[2])

U64Le(a, b) == a = b \/ U64Lt(a, b)

(* PAGE_SIZE of the arm64 port, 4 KiB; it divides 2^24, so alignment is     *)
(* decided by the low limb.                                                *)
PAGE_SIZE == \h1000

PageAligned(a) == a[2] % PAGE_SIZE = 0

(* The half-open physical range [start, start + size).                     *)
RangeEnd(start, size) == U64Add(start, size)

(* Two half-open ranges share an address.                                  *)
RangesOverlap(s1, n1, s2, n2) ==
  /\ n1 # U64Zero
  /\ n2 # U64Zero
  /\ U64Lt(s1, RangeEnd(s2, n2))
  /\ U64Lt(s2, RangeEnd(s1, n1))

(* Every address of [s, s + n) is an address of [lo, hi).                  *)
RangeWithin(s, n, lo, hi) ==
  n = U64Zero \/ (U64Le(lo, s) /\ U64Le(RangeEnd(s, n), hi))

(* ------------------------------------------------- struct initialisers -- *)

JAILHOUSE_MEM_READ == "READ"
JAILHOUSE_MEM_WRITE == "WRITE"
JAILHOUSE_MEM_EXECUTE == "EXECUTE"
JAILHOUSE_MEM_DMA == "DMA"
JAILHOUSE_MEM_IO == "IO"
JAILHOUSE_MEM_ROOTSHARED == "ROOTSHARED"

JAILHOUSE_PCI_TYPE_IVSHMEM == "IVSHMEM"

(* struct jailhouse_memory                                                 *)
Mem(phys, virt, size, flags) ==
  [phys_start |-> phys, virt_start |-> virt, size |-> size, flags |-> flags]

(* An array element left without an initialiser, and the { 0 } element.    *)
MemZero == Mem(U64Zero, U64Zero, U64Zero, {})

(* The four struct jailhouse_memory entries of one IVSHMEM networking      *)
(* device: state table, an empty entry, and the two peers' output regions, *)
(* all inside [start, start + 1 MB).                                       *)
JAILHOUSE_SHMEM_NET_REGIONS(start, dev_id) ==
  << Mem(start, start, U64(0, \h1000),
         {JAILHOUSE_MEM_READ, JAILHOUSE_MEM_ROOTSHARED}),
     MemZero,
     Mem(U64Add(start, U64(0, \h1000)), U64Add(start, U64(0, \h1000)),
         U64(0, \h7f000),
         {JAILHOUSE_MEM_READ, JAILHOUSE_MEM_ROOTSHARED}
           \cup (IF dev_id = 0 THEN {JAILHOUSE_MEM_WRITE} ELSE {})),
     Mem(U64Add(start, U64(0, \h80000)), U64Add(start, U64(0, \h80000)),
         U64(0, \h7f000),
         {JAILHOUSE_MEM_READ, JAILHOUSE_MEM_ROOTSHARED}
           \cup (IF dev_id = 1 THEN {JAILHOUSE_MEM_WRITE} ELSE {})) >>

(* An array of n elements whose first Len(init) elements are initialised.  *)
ArrayOf(init, n, zero) ==
  [i \in 1..n |-> IF i <= Len(init) THEN init[i] ELSE zero]

(* struct jailhouse_irqchip; pin_bitmap is four 32-bit words.              *)
IrqChip(address, pin_base, pin_bitmap) ==
  [address |-> address, pin_base |-> pin_base, pin_bitmap |-> pin_bitmap]

W32(hi16, lo16) == <<hi16, lo16>>

(* Bit i (0..127) of a pin_bitmap.                                         *)
PinBit(pin_bitmap, i) ==
  LET w == pin_bitmap[(i \div 32) + 1]
      b == i % 32
  IN  IF b < 16 THEN (w[2] \div (2 ^ b)) % 2 = 1
                ELSE (w[1] \div (2 ^ (b - 16))) % 2 = 1

(* struct jailhouse_pci_device                                             *)
PciDev(type, domain, bdf, shmem_regions_start, shmem_dev_id, shmem_peers) ==
  [type |-> type, domain |-> domain, bdf |-> bdf,
   shmem_regions_start |-> shmem_regions_start,
   shmem_dev_id |-> shmem_dev_id, shmem_peers |-> shmem_peers]

(* struct jailhouse_qos_device; base is the name of the constant of        *)
(* zynqmp-qos-config.h the entry is initialised from.                      *)
Qos(name, base) == [name |-> name, base |-> base]

(* ---------------------------------- configs/arm64/zynqmp-kv260.c ------- *)

kv260_hypervisor_memory ==
  [phys_start |-> U64(\h7f, \h000000), size |-> U64(\h01, \h000000)]

kv260_debug_console ==
  [address |-> U64(\hff, \h010000), size |-> U64(0, \h1000)]

kv260_num_irqs == 188

kv260_vpci_irq_base == 136 - 32

kv260_mem_regions_init ==
  JAILHOUSE_SHMEM_NET_REGIONS(U64(\h60, \h000000), 0)
  \o JAILHOUSE_SHMEM_NET_REGIONS(U64(\h60, \h100000), 0)
  \o << (* MMIO (permissive) *)
        Mem(U64(\hfd, \h000000), U64(\hfd, \h000000), U64(\h03, \h000000),
            {JAILHOUSE_MEM_READ, JAILHOUSE_MEM_WRITE, JAILHOUSE_MEM_IO}),
        (* RAM *)
        Mem(U64(0, 0), U64(0, 0), U64(\h60, \h000000),
            {JAILHOUSE_MEM_READ, JAILHOUSE_MEM_WRITE, JAILHOUSE_MEM_EXECUTE}),
        (* RAM *)
        Mem(U64(\h60, \h200000), U64(\h60, \h200000), U64(\h1e, \he00000),
            {JAILHOUSE_MEM_READ, JAILHOUSE_MEM_WRITE, JAILHOUSE_MEM_EXECUTE}),
        (* RAM *)
        Mem(U64(\h800, \h000000), U64(\h800, \h000000), U64(\h080, \h000000),
            {JAILHOUSE_MEM_READ, JAILHOUSE_MEM_WRITE, JAILHOUSE_MEM_EXECUTE}),
        (* PCI host bridge *)
        Mem(U64(\h8000, \h000000), U64(\h8000, \h000000), U64(\h1, \h000000),
            {JAILHOUSE_MEM_READ, JAILHOUSE_MEM_WRITE, JAILHOUSE_MEM_IO}),
        (* TCM region for the R5 *)
        Mem(U64(\hff, \he00000), U64(\hff, \he00000), U64(0, \hC0000),
            {JAILHOUSE_MEM_READ, JAILHOUSE_MEM_WRITE, JAILHOUSE_MEM_EXECUTE}),
        (* DDR 0 region for the R5 *)
        Mem(U64(\h3e, \hd00000), U64(\h3e, \hd00000), U64(0, \h40000),
            {JAILHOUSE_MEM_READ, JAILHOUSE_MEM_WRITE, JAILHOUSE_MEM_EXECUTE}),
        (* DDR 1 region for the R5 *)
        Mem(U64(\h3e, \hd40000), U64(\h3e, \hd40000), U64(0, \h40000),
            {JAILHOUSE_MEM_READ, JAILHOUSE_MEM_WRITE, JAILHOUSE_MEM_EXECUTE}),
        (* proc 0 region for the R5 *)
        Mem(U64(\hff, \h9a0100), U64(\hff, \h9a0100), U64(0, \h100),
            {JAILHOUSE_MEM_READ, JAILHOUSE_MEM_WRITE, JAILHOUSE_MEM_EXECUTE}),
        (* proc 1 region for the R5 *)
        Mem(U64(\hff, \h9a0200), U64(\hff, \h9a0200), U64(0, \h100),
            {JAILHOUSE_MEM_READ, JAILHOUSE_MEM_WRITE, JAILHOUSE_MEM_EXECUTE}) >>

(* struct jailhouse_memory mem_regions[24]                                 *)
kv260_mem_regions == ArrayOf(kv260_mem_regions_init, 24, MemZero)

kv260_irqchips ==
  << (* GIC *)
     IrqChip(U64(\hf9, \h010000), 32,
             << W32(\hffff, \hffff), W32(\hffff, \hffff),
                W32(\hffff, \hffff), W32(\hffff, \hffff) >>) >>

(* The second device left with the first one's shmem_regions_start.       *)
kv260_pci_devices_same_start ==
  << PciDev(JAILHOUSE_PCI_TYPE_IVSHMEM, 1, 1 * 8, 0, 0, 2),
     PciDev(JAILHOUSE_PCI_TYPE_IVSHMEM, 1, 2 * 8, 0, 0, 2) >>

(* The second device left with the first one's bdf.                        *)
kv260_pci_devices_same_bdf ==
  << PciDev(JAILHOUSE_PCI_TYPE_IVSHMEM, 1, 1 * 8, 0, 0, 2),
     PciDev(JAILHOUSE_PCI_TYPE_IVSHMEM, 1, 1 * 8, 4, 0, 2) >>

kv260_pci_devices ==
  << (* 0001:00:01.0 *)
     PciDev(JAILHOUSE_PCI_TYPE_IVSHMEM, 1, 1 * 8, 0, 0, 2),
     (* 0001:00:02.0 *)
     PciDev(JAILHOUSE_PCI_TYPE_IVSHMEM, 1, 2 * 8, 4, 0, 2) >>

kv260_qos_devices ==
  << Qos("rpu0", "M_RPU0_BASE"),
     Qos("rpu1", "M_RPU1_BASE"),
     Qos("adma", "M_ADMA_BASE"),
     Qos("afifm6", "M_AFIFM6_BASE"),
     Qos("dap", "M_DAP_BASE"),
     Qos("usb0", "M_USB0_BASE"),
     Qos("usb1", "M_USB1_BASE"),
     Qos("intiou", "M_INTIOU_BASE"),
     Qos("intcsupmu", "M_INTCSUPMU_BASE"),
     Qos("intlpdinbound", "M_INTLPDINBOUND_BASE"),
     Qos("intlpdocm", "M_INTLPDOCM_BASE"),
     Qos("ib5", "M_IB5_BASE"),
     Qos("ib6", "M_IB6_BASE"),
     Qos("ib8", "M_IB8_BASE"),
     Qos("ib0", "M_IB0_BASE"),
     Qos("ib11", "M_IB5_BASE"),
     Qos("ib12", "M_IB5_BASE"),
     Qos("intfpdcci", "M_INTFPDCCI_BASE"),
     Qos("intfpdsmmutbu3", "M_INTFPDSMMUTBU3_BASE"),
     Qos("intfpdsmmutbu4", "M_INTFPDSMMUTBU4_BASE"),
     Qos("afifm0", "M_AFIFM0_BASE"),
     Qos("afifm1", "M_AFIFM1_BASE"),
     Qos("afifm2", "M_AFIFM2_BASE"),
     Qos("intfpdsmmutbu5", "M_INITFPDSMMUTBU5_BASE"),
     Qos("dp", "M_DP_BASE"),
     Qos("afifm3", "M_AFIFM3_BASE"),
     Qos("afifm4", "M_AFIFM4_BASE"),
     Qos("afifm5", "M_AFIFM5_BASE"),
     Qos("gpu", "M_GPU_BASE"),
     Qos("pcie", "M_PCIE_BASE"),
     Qos("gdma", "M_GDMA_BASE"),
     Qos("sata", "M_SATA_BASE"),
     Qos("coresight", "M_CORESIGHT_BASE"),
     Qos("issib2", "ISS_IB2_BASE"),
     Qos("issib6", "ISS_IB6_BASE") >>

(* The root-cell descriptor: header fields the checks read, and the        *)
(* arrays with the counts root_cell gives (ARRAY_SIZE of each).            *)
kv260_config ==
  [name |-> "ZynqMP-KV260",
   hypervisor_memory |-> kv260_hypervisor_memory,
   debug_console |-> kv260_debug_console,
   num_irqs |-> kv260_num_irqs,
   vpci_irq_base |-> kv260_vpci_irq_base,
   num_memory_regions |-> Len(kv260_mem_regions),
   mem_regions |-> kv260_mem_regions,
   irqchips |-> kv260_irqchips,
   pci_devices |-> kv260_pci_devices,
   qos_devices |-> kv260_qos_devices]

(* ------------------------- RK3566 / RK3568 root cell (part_000) -------- *)

(* The hypervisor given 4 MB of the reservation instead of 2 MB.           *)
rk3568_hypervisor_memory_4mb ==
  [phys_start |-> U64(\h0a, \h800000), size |-> U64(\h00, \h400000)]

rk3568_hypervisor_memory ==
  [phys_start |-> U64(\h0a, \h800000), size |-> U64(\h00, \h200000)]

rk3568_debug_console ==
  [address |-> U64(\hfe, \h660000), size |-> U64(\h00, \h010000)]

rk3568_num_irqs == 32 + 320

rk3568_vpci_irq_base == 284 - 32

(* Reservation via device tree: reg = <0x0 0x0a800000 0x0 0x05800000>     *)
rk3568_reservation ==
  [phys_start |-> U64(\h0a, \h800000), size |-> U64(\h05, \h800000)]

rk3568_mem_regions_init ==
  << (* IVSHMEM shared memory regions for 00:00.0 (demo) *)
     Mem(U64(\h0a, \ha00000), U64(\h0a, \ha00000), U64(0, \h10000),
         {JAILHOUSE_MEM_READ}),
     Mem(U64(\h0a, \ha10000), U64(\h0a, \ha10000), U64(0, \h10000),
         {JAILHOUSE_MEM_READ, JAILHOUSE_MEM_WRITE}),
     Mem(U64(\h0a, \ha20000), U64(\h0a, \ha20000), U64(0, \h10000),
         {JAILHOUSE_MEM_READ, JAILHOUSE_MEM_WRITE}),
     Mem(U64(\h0a, \ha30000), U64(\h0a, \ha30000), U64(0, \h10000),
         {JAILHOUSE_MEM_READ}) >>
  \o (* IVSHMEM shared memory regions for 00:01.0 (networking) *)
     JAILHOUSE_SHMEM_NET_REGIONS(U64(\h0a, \hb00000), 0)
  \o << (* 80 MB memory region from 0x0b000000 to 0x10000000 for cells *)
        Mem(U64(\h0b, \h000000), U64(\h0b, \h000000), U64(\h05, \h000000),
            {JAILHOUSE_MEM_READ, JAILHOUSE_MEM_WRITE}),
        (* normal memory before the Jailhouse reserved memory region *)
        Mem(U64(\h00, \h000000), U64(\h00, \h000000), U64(\h0a, \h800000),
            {JAILHOUSE_MEM_READ, JAILHOUSE_MEM_WRITE, JAILHOUSE_MEM_EXECUTE,
             JAILHOUSE_MEM_DMA}),
        (* normal memory after the Jailhouse reserved memory region *)
        Mem(U64(\h10, \h000000), U64(\h10, \h000000), U64(\he0, \h000000),
            {JAILHOUSE_MEM_READ, JAILHOUSE_MEM_WRITE, JAILHOUSE_MEM_EXECUTE,
             JAILHOUSE_MEM_DMA}),
        (* 256 MB I/O memory region, first part (PCI regions) *)
        Mem(U64(\hf0, \h000000), U64(\hf0, \h000000), U64(\h06, \hc00000),
            {JAILHOUSE_MEM_READ, JAILHOUSE_MEM_WRITE, JAILHOUSE_MEM_IO,
             JAILHOUSE_MEM_DMA}),
        (* 256 MB I/O memory region, second part (rest) *)
        Mem(U64(\hfc, \h000000), U64(\hfc, \h000000), U64(\h04, \h000000),
            {JAILHOUSE_MEM_READ, JAILHOUSE_MEM_WRITE, JAILHOUSE_MEM_IO,
             JAILHOUSE_MEM_DMA}),
        (* normal memory beyond 4 GB, at most 8 GB are supported *)
        Mem(U64(\h100, \h000000), U64(\h100, \h000000), U64(\h110, \h000000),
            {JAILHOUSE_MEM_READ, JAILHOUSE_MEM_WRITE, JAILHOUSE_MEM_EXECUTE,
             JAILHOUSE_MEM_DMA}),
        (* PCIe memory region *)
        Mem(U64(\h300, \h000000), U64(\h300, \h000000), U64(\hc0, \hc00000),
            {JAILHOUSE_MEM_READ, JAILHOUSE_MEM_WRITE, JAILHOUSE_MEM_IO,
             JAILHOUSE_MEM_DMA}) >>

(* struct jailhouse_memory mem_regions[4 + 4 + 1 + 6]                      *)
rk3568_mem_regions == ArrayOf(rk3568_mem_regions_init, 4 + 4 + 1 + 6, MemZero)

(* The third entry with all four pin_bitmap words set, like the others.   *)
rk3568_irqchips_all_set ==
  << IrqChip(U64(\hfd, \h400000), 32,
             << W32(\hffff, \hffff), W32(\hffff, \hffff),
                W32(\hffff, \hffff), W32(\hffff, \hffff) >>),
     IrqChip(U64(\hfd, \h400000), 160,
             << W32(\hffff, \hffff), W32(\hffff, \hffff),
                W32(\hffff, \hffff), W32(\hffff, \hffff) >>),
     IrqChip(U64(\hfd, \h400000), 288,
             << W32(\hffff, \hffff), W32(\hffff, \hffff),
                W32(\hffff, \hffff), W32(\hffff, \hffff) >>) >>

rk3568_irqchips ==
  << (* GIC *)
     IrqChip(U64(\hfd, \h400000), 32,
             << W32(\hffff, \hffff), W32(\hffff, \hffff),
                W32(\hffff, \hffff), W32(\hffff, \hffff) >>),
     (* GIC *)
     IrqChip(U64(\hfd, \h400000), 160,
             << W32(\hffff, \hffff), W32(\hffff, \hffff),
                W32(\hffff, \hffff), W32(\hffff, \hffff) >>),
     (* GIC *)
     IrqChip(U64(\hfd, \h400000), 288,
             << W32(\hffff, \hffff), W32(\hffff, \hffff),
                W32(0, 0), W32(0, 0) >>) >>

rk3568_pci_devices ==
  << (* 00:00.0 (demo) *)
     PciDev(JAILHOUSE_PCI_TYPE_IVSHMEM, 3, 0 * 8, 0, 0, 2),
     (* 00:01.0 (networking) *)
     PciDev(JAILHOUSE_PCI_TYPE_IVSHMEM, 3, 1 * 8, 4, 0, 2) >>

rk3568_config ==
  [name |-> "rk3568",
   hypervisor_memory |-> rk3568_hypervisor_memory,
   debug_console |-> rk3568_debug_console,
   num_irqs |-> rk3568_num_irqs,
   vpci_irq_base |-> rk3568_vpci_irq_base,
   num_memory_regions |-> Len(rk3568_mem_regions),
   mem_regions |-> rk3568_mem_regions,
   irqchips |-> rk3568_irqchips,
   pci_devices |-> rk3568_pci_devices,
   qos_devices |-> << >>]

(* ------------------------------- test descriptors of the specification -- *)

JAILHOUSE_PCI_TYPE_DEVICE == "PASSTHROUGH"

TestHypervisorMemory ==
  [phys_start |-> U64(\h7f, \h000000), size |-> U64(\h01, \h000000)]

TestDebugConsole ==
  [address |-> U64(\hff, \h010000), size |-> U64(0, \h1000)]

TestChip(pin_base, lo16) ==
  IrqChip(U64(\hf9, \h010000), pin_base,
          << W32(0, lo16), W32(0, 0), W32(0, 0), W32(0, 0) >>)

TestConfig(name, num_irqs, regions, chips, devices) ==
  [name |-> name,
   hypervisor_memory |-> TestHypervisorMemory,
   debug_console |-> TestDebugConsole,
   num_irqs |-> num_irqs,
   vpci_irq_base |-> 64 - 32,
   num_memory_regions |-> Len(regions),
   mem_regions |-> regions,
   irqchips |-> chips,
   pci_devices |-> devices,
   qos_devices |-> << >>]

(* Aliasing exemption: two regions with identical physical range, both     *)
(* flagged ROOTSHARED.                                                     *)
alias_config ==
  TestConfig("alias", 284,
    << Mem(U64(0, \h1000), U64(0, \h1000), U64(0, \h1000),
           {JAILHOUSE_MEM_READ, JAILHOUSE_MEM_ROOTSHARED}),
       Mem(U64(0, \h1000), U64(0, \h1000), U64(0, \h1000),
           {JAILHOUSE_MEM_READ, JAILHOUSE_MEM_ROOTSHARED}) >>,
    << TestChip(32, \h00ff) >>,
    << >>)

(* BDF uniqueness: differing domains with the same bdf.                    *)
domains_config ==
  TestConfig("domains", 284,
    << Mem(U64(0, \h1000), U64(0, \h1000), U64(0, \h1000),
           {JAILHOUSE_MEM_READ}) >>,
    << TestChip(32, \h00ff) >>,
    << PciDev(JAILHOUSE_PCI_TYPE_DEVICE, 0, 1 * 8, 0, 0, 0),
       PciDev(JAILHOUSE_PCI_TYPE_DEVICE, 1, 1 * 8, 0, 0, 0) >>)

(* Overlap detection: [0x1000,0x2000) and [0x1800,0x2800) without the      *)
(* sharing flag.                                                           *)
overlap_config ==
  TestConfig("overlap", 284,
    << Mem(U64(0, \h1000), U64(0, \h1000), U64(0, \h1000),
           {JAILHOUSE_MEM_READ}),
       Mem(U64(0, \h1800), U64(0, \h1800), U64(0, \h1000),
           {JAILHOUSE_MEM_READ}) >>,
    << TestChip(32, \h00ff) >>,
    << >>)

(* IVSHMEM region count: peers = 2 with only 3 regions from                *)
(* shmem_regions_start on.                                                 *)
shmem3_config ==
  TestConfig("shmem3", 284,
    << Mem(U64(0, \h1000), U64(0, \h1000), U64(0, \h1000),
           {JAILHOUSE_MEM_READ, JAILHOUSE_MEM_ROOTSHARED}),
       Mem(U64(0, \h2000), U64(0, \h2000), U64(0, \h1000),
           {JAILHOUSE_MEM_READ, JAILHOUSE_MEM_ROOTSHARED}),
       Mem(U64(0, \h3000), U64(0, \h3000), U64(0, \h1000),
           {JAILHOUSE_MEM_READ, JAILHOUSE_MEM_ROOTSHARED}) >>,
    << TestChip(32, \h00ff) >>,
    << PciDev(JAILHOUSE_PCI_TYPE_IVSHMEM, 0, 0, 0, 0, 2) >>)

(* Exhaustiveness: one overlap, one duplicate BDF and one IRQ budget        *)
(* overrun (pin_base = 280, num_irqs = 284, bit 10 set: pin 290).           *)
three_config ==
  TestConfig("three", 284,
    << Mem(U64(0, \h1000), U64(0, \h1000), U64(0, \h2000),
           {JAILHOUSE_MEM_READ}),
       Mem(U64(0, \h2000), U64(0, \h2000), U64(0, \h2000),
           {JAILHOUSE_MEM_READ}) >>,
    << TestChip(280, \h0400) >>,
    << PciDev(JAILHOUSE_PCI_TYPE_DEVICE, 0, 1 * 8, 0, 0, 0),
       PciDev(JAILHOUSE_PCI_TYPE_DEVICE, 0, 1 * 8, 0, 0, 0) >>)

(* The descriptors of the repository, and all descriptors put through the  *)
(* pipeline.                                                               *)
RepoIds == {"kv260", "rk3568"}

TestIds == {"alias", "domains", "overlap", "shmem3", "three"}

DescIds == RepoIds \cup TestIds

config(id) ==
  CASE id = "kv260" -> kv260_config
    [] id = "rk3568" -> rk3568_config
    [] id = "alias" -> alias_config
    [] id = "domains" -> domains_config
    [] id = "overlap" -> overlap_config
    [] id = "shmem3" -> shmem3_config
    [] id = "three" -> three_config

(* ------------------------------------------ the checks of the validator -- *)

(* Physical ranges of a descriptor: position 0 is hypervisor_memory,       *)
(* position i >= 1 is mem_regions[i - 1] of the C array.                   *)
PhysRange(c, i) ==
  IF i = 0
    THEN [phys_start |-> c.hypervisor_memory.phys_start,
          size |-> c.hypervisor_memory.size, flags |-> {}]
    ELSE [phys_start |-> c.mem_regions[i].phys_start,
          size |-> c.mem_regions[i].size, flags |-> c.mem_regions[i].flags]

Overlaps(c, i, j) ==
  RangesOverlap(PhysRange(c, i).phys_start, PhysRange(c, i).size,
                PhysRange(c, j).phys_start, PhysRange(c, j).size)

BothRootShared(c, i, j) ==
  /\ JAILHOUSE_MEM_ROOTSHARED \in PhysRange(c, i).flags
  /\ JAILHOUSE_MEM_ROOTSHARED \in PhysRange(c, j).flags

Violation(id, entities) == [invariant_id |-> id, entities |-> entities]

(* 1: overlapping physical ranges that are not both ROOTSHARED.            *)
CheckOverlap(c) ==
  { Violation(1, <<p[1], p[2]>>) :
      p \in { q \in (0..c.num_memory_regions) \X (0..c.num_memory_regions) :
                q[1] < q[2] /\ Overlaps(c, q[1], q[2])
                /\ ~BothRootShared(c, q[1], q[2]) } }

(* 2: regions sharing an address with hypervisor_memory.                   *)
CheckHypervisorDisjoint(c) ==
  { Violation(2, <<i>>) :
      i \in { k \in 1..c.num_memory_regions : Overlaps(c, 0, k) } }

(* Regions an IVSHMEM device with the given number of peers references.    *)
ShmemRunLength(peers) == 4 + 4 * (peers - 2)

(* 3: IVSHMEM devices whose run of regions does not exist in the table.    *)
CheckShmemRegions(c) ==
  { Violation(3, <<k>>) :
      k \in { n \in 1..Len(c.pci_devices) :
                /\ c.pci_devices[n].type = JAILHOUSE_PCI_TYPE_IVSHMEM
                /\ c.pci_devices[n].shmem_regions_start
                     + ShmemRunLength(c.pci_devices[n].shmem_peers)
                   > c.num_memory_regions } }

(* 4: pairs of devices with the same bdf in the same domain.               *)
CheckBdfUnique(c) ==
  { Violation(4, <<p[1], p[2]>>) :
      p \in { q \in (1..Len(c.pci_devices)) \X (1..Len(c.pci_devices)) :
                /\ q[1] < q[2]
                /\ c.pci_devices[q[1]].domain = c.pci_devices[q[2]].domain
                /\ c.pci_devices[q[1]].bdf = c.pci_devices[q[2]].bdf } }

(* Pins of one irqchip entry.                                              *)
PINS_PER_CHIP == 4 * 32

(* Interrupt lines an irqchip entry assigns: pin_base + i for set bits i.  *)
AssignedLines(chip) ==
  { chip.pin_base + i : i \in { b \in 0..(PINS_PER_CHIP - 1) :
                                  PinBit(chip.pin_bitmap, b) } }

(* 5: irqchip blocks that overlap, and chips assigning a line at or past   *)
(* num_irqs.                                                               *)
CheckIrqChips(c) ==
  { Violation(5, <<p[1], p[2]>>) :
      p \in { q \in (1..Len(c.irqchips)) \X (1..Len(c.irqchips)) :
                /\ q[1] < q[2]
                /\ c.irqchips[q[1]].pin_base
                     < c.irqchips[q[2]].pin_base + PINS_PER_CHIP
                /\ c.irqchips[q[2]].pin_base
                     < c.irqchips[q[1]].pin_base + PINS_PER_CHIP } }
  \cup
  { Violation(5, <<k>>) :
      k \in { n \in 1..Len(c.irqchips) :
                \E l \in AssignedLines(c.irqchips[n]) : l >= c.num_irqs } }

(* Interrupt lines of the root cell's virtual PCI controller: 4 lines      *)
(* from SPI vpci_irq_base, that is GIC interrupt 32 + vpci_irq_base, on.   *)
VPCI_IRQS == 4

VpciLines(c) == { 32 + c.vpci_irq_base + k : k \in 0..(VPCI_IRQS - 1) }

(* 6: virtual PCI lines past the budget or assigned by an irqchip entry.   *)
CheckVpciIrqs(c) ==
  { Violation(6, <<l>>) :
      l \in { v \in VpciLines(c) :
                \/ v >= c.num_irqs
                \/ \E n \in 1..Len(c.irqchips) :
                     v \in AssignedLines(c.irqchips[n]) } }

(* 7: pairs of qos_devices entries with the same name.                     *)
CheckQosNames(c) ==
  { Violation(7, <<p[1], p[2]>>) :
      p \in { q \in (1..Len(c.qos_devices)) \X (1..Len(c.qos_devices)) :
                /\ q[1] < q[2]
                /\ c.qos_devices[q[1]].name = c.qos_devices[q[2]].name } }

(* Address ranges of a descriptor: position 0 is hypervisor_memory,        *)
(* position i in 1..num_memory_regions is mem_regions[i - 1], and position *)
(* num_memory_regions + 1 is debug_console.                                *)
AddressRange(c, i) ==
  IF i = 0
    THEN [start |-> c.hypervisor_memory.phys_start,
          virt |-> c.hypervisor_memory.phys_start,
          size |-> c.hypervisor_memory.size]
    ELSE IF i = c.num_memory_regions + 1
      THEN [start |-> c.debug_console.address,
            virt |-> c.debug_console.address,
            size |-> c.debug_console.size]
      ELSE [start |-> c.mem_regions[i].phys_start,
            virt |-> c.mem_regions[i].virt_start,
            size |-> c.mem_regions[i].size]

(* 8: address ranges that are empty or not page aligned.                   *)
CheckRanges(c) ==
  { Violation(8, <<i>>) :
      i \in { k \in 0..(c.num_memory_regions + 1) :
                \/ AddressRange(c, k).size = U64Zero
                \/ ~PageAligned(AddressRange(c, k).start)
                \/ ~PageAligned(AddressRange(c, k).virt)
                \/ ~PageAligned(AddressRange(c, k).size) } }

(* The checks in the order of the invariants they decide.                  *)
Checks(c) ==
  << CheckOverlap(c), CheckHypervisorDisjoint(c), CheckShmemRegions(c),
     CheckBdfUnique(c), CheckIrqChips(c), CheckVpciIrqs(c),
     CheckQosNames(c), CheckRanges(c) >>

(* A validator that returns at the first check that fails.                 *)
validate_first_failure(c) ==
  LET checks == Checks(c)
      failing == { k \in 1..Len(checks) : checks[k] # {} }
  IN  IF failing = {} THEN {}
      ELSE checks[CHOOSE k \in failing : \A m \in failing : k <= m]

(* validate(descriptor): every check runs, all violations are collected.   *)
validate(c) ==
  LET checks == Checks(c)
  IN  UNION { checks[k] : k \in 1..Len(checks) }

(* ------------------------------------------------------- the pipeline -- *)

VARIABLES
  descriptor,   \* id -> the descriptor value under that id
  stage,        \* id -> "Unvalidated" | "Validated" | "Encoded"
  result,       \* id -> what the last validate returned: "none" | "Ok" | "Err"
  violations,   \* id -> the violations the last validate returned
  loaded        \* id -> the descriptor was handed to the loader

vars == <<descriptor, stage, result, violations, loaded>>

Init ==
  /\ descriptor = [d \in DescIds |-> config(d)]
  /\ stage = [d \in DescIds |-> "Unvalidated"]
  /\ result = [d \in DescIds |-> "none"]
  /\ violations = [d \in DescIds |-> {}]
  /\ loaded = [d \in DescIds |-> FALSE]

(* validate(descriptor): a read-only analysis; Ok moves the descriptor to  *)
(* Validated.                                                              *)
Validate(d) ==
  LET found == validate(descriptor[d])
  IN  /\ violations' = [violations EXCEPT ![d] = found]
      /\ result' = [result EXCEPT ![d] = IF found = {} THEN "Ok" ELSE "Err"]
      /\ stage' = [stage EXCEPT ![d] =
                     IF found # {} THEN "Unvalidated"
                     ELSE IF stage[d] = "Unvalidated" THEN "Validated"
                     ELSE stage[d]]
      /\ UNCHANGED <<descriptor, loaded>>

(* An encode step that does not look at what validate returned.            *)
EncodeUngated(d) ==
  /\ stage[d] # "Encoded"
  /\ stage' = [stage EXCEPT ![d] = "Encoded"]
  /\ UNCHANGED <<descriptor, result, violations, loaded>>

(* encode(descriptor): only for a descriptor validate returned Ok for.     *)
Encode(d) ==
  /\ result[d] = "Ok"
  /\ stage[d] = "Validated"
  /\ stage' = [stage EXCEPT ![d] = "Encoded"]
  /\ UNCHANGED <<descriptor, result, violations, loaded>>

(* The loader consumes only descriptors validate returned Ok for.          *)
HandToLoader(d) ==
  /\ result[d] = "Ok"
  /\ ~loaded[d]
  /\ loaded' = [loaded EXCEPT ![d] = TRUE]
  /\ UNCHANGED <<descriptor, stage, result, violations>>

Next ==
  \E d \in DescIds :
    \/ Validate(d)
    \/ Encode(d)
    \/ HandToLoader(d)

Spec == Init /\ [][Next]_vars

(* --------------------------------------- the invariants, per descriptor -- *)

Positions(c) == 0..c.num_memory_regions

NoOverlap(c) ==
  \A i \in Positions(c) : \A j \in Positions(c) :
    (i < j /\ Overlaps(c, i, j)) => BothRootShared(c, i, j)

HypervisorDisjoint(c) ==
  \A i \in 1..c.num_memory_regions :
    ~RangesOverlap(c.hypervisor_memory.phys_start, c.hypervisor_memory.size,
                   c.mem_regions[i].phys_start, c.mem_regions[i].size)

IsIvshmem(dev) == dev.type = JAILHOUSE_PCI_TYPE_IVSHMEM

(* C indices of the regions an IVSHMEM device references.                  *)
ShmemRun(dev) ==
  dev.shmem_regions_start
    .. (dev.shmem_regions_start + ShmemRunLength(dev.shmem_peers) - 1)

ShmemRunsExist(c) ==
  \A n \in 1..Len(c.pci_devices) :
    IsIvshmem(c.pci_devices[n]) =>
      \A r \in ShmemRun(c.pci_devices[n]) : r < c.num_memory_regions

BdfUnique(c) ==
  \A i \in 1..Len(c.pci_devices) : \A j \in 1..Len(c.pci_devices) :
    i # j => <<c.pci_devices[i].domain, c.pci_devices[i].bdf>>
               # <<c.pci_devices[j].domain, c.pci_devices[j].bdf>>

PinBlock(chip) == chip.pin_base .. (chip.pin_base + PINS_PER_CHIP - 1)

IrqChipsDisjoint(c) ==
  \A i \in 1..Len(c.irqchips) : \A j \in 1..Len(c.irqchips) :
    i # j => PinBlock(c.irqchips[i]) \cap PinBlock(c.irqchips[j]) = {}

IrqBudgetKept(c) ==
  \A n \in 1..Len(c.irqchips) : \A i \in 0..(PINS_PER_CHIP - 1) :
    PinBit(c.irqchips[n].pin_bitmap, i) =>
      c.irqchips[n].pin_base + i < c.num_irqs

VpciInBudget(c) == \A v \in VpciLines(c) : v < c.num_irqs

VpciNotAssigned(c) ==
  \A v \in VpciLines(c) : \A n \in 1..Len(c.irqchips) :
    ~( v \in PinBlock(c.irqchips[n])
       /\ PinBit(c.irqchips[n].pin_bitmap, v - c.irqchips[n].pin_base) )

QosNamesUnique(c) ==
  \A i \in 1..Len(c.qos_devices) : \A j \in 1..Len(c.qos_devices) :
    i # j => c.qos_devices[i].name # c.qos_devices[j].name

QosBasesUnique(c) ==
  \A i \in 1..Len(c.qos_devices) : \A j \in 1..Len(c.qos_devices) :
    i # j => c.qos_devices[i].base # c.qos_devices[j].base

RangeOk(start, virt, size) ==
  /\ size # U64Zero
  /\ PageAligned(start)
  /\ PageAligned(virt)
  /\ PageAligned(size)

RangesOk(c) ==
  /\ RangeOk(c.hypervisor_memory.phys_start, c.hypervisor_memory.phys_start,
             c.hypervisor_memory.size)
  /\ RangeOk(c.debug_console.address, c.debug_console.address,
             c.debug_console.size)
  /\ \A i \in 1..c.num_memory_regions :
       RangeOk(c.mem_regions[i].phys_start, c.mem_regions[i].virt_start,
               c.mem_regions[i].size)

(* Invariant k of the data model holds of descriptor c.                    *)
InvariantHolds(k, c) ==
  CASE k = 1 -> NoOverlap(c)
    [] k = 2 -> HypervisorDisjoint(c)
    [] k = 3 -> ShmemRunsExist(c)
    [] k = 4 -> BdfUnique(c)
    [] k = 5 -> IrqChipsDisjoint(c) /\ IrqBudgetKept(c)
    [] k = 6 -> VpciInBudget(c) /\ VpciNotAssigned(c)
    [] k = 7 -> QosNamesUnique(c)
    [] k = 8 -> RangesOk(c)

InvariantIds == 1..8

ValidateRan(d) == result[d] # "none"

(* ------------------------------------------------------------ claims -- *)

(* C1: in each of the two root-cell descriptors, taking hypervisor_memory  *)
(* and every entry of mem_regions as half-open physical ranges, no two     *)
(* ranges overlap unless both carry the ROOTSHARED flag; a region lying    *)
(* inside another region counts as an overlap.                             *)
C1_NoOverlapUnlessRootShared ==
  \A d \in RepoIds : NoOverlap(descriptor[d])

(* C2: in each descriptor hypervisor_memory shares no address with any     *)
(* entry of mem_regions; for rk3568 the hypervisor occupies exactly the    *)
(* first 2 MB of the reservation 0x0a800000..0x10000000, every             *)
(* shared-memory and cell-memory region (C indices 0..8) lies in the       *)
(* remainder of the reservation and every other region (C indices 9..14)   *)
(* lies outside the reservation.                                           *)
C2_HypervisorDisjoint ==
  LET rk == descriptor["rk3568"]
      hv == rk.hypervisor_memory
      hvEnd == RangeEnd(hv.phys_start, hv.size)
      resEnd == RangeEnd(rk3568_reservation.phys_start,
                         rk3568_reservation.size)
  IN  /\ \A d \in RepoIds : HypervisorDisjoint(descriptor[d])
      /\ hv.phys_start = rk3568_reservation.phys_start
      /\ hv.size = U64(0, 2 * 1024 * 1024)
      /\ resEnd = U64(\h10, \h000000)
      /\ \A i \in 1..9 :
           RangeWithin(rk.mem_regions[i].phys_start, rk.mem_regions[i].size,
                       hvEnd, resEnd)
      /\ \A i \in 10..rk.num_memory_regions :
           ~RangesOverlap(rk.mem_regions[i].phys_start,
                          rk.mem_regions[i].size,
                          rk3568_reservation.phys_start,
                          rk3568_reservation.size)

(* C2 witness: validate has run on both descriptors, the KV260 RAM region  *)
(* (C index 10) ends exactly at the hypervisor start 0x7f000000 and the    *)
(* first rk3568 shared-memory region starts exactly at the hypervisor end  *)
(* 0x0aa00000.                                                             *)
C2_Witness ==
  LET kv == descriptor["kv260"]
      rk == descriptor["rk3568"]
  IN  /\ ValidateRan("kv260")
      /\ ValidateRan("rk3568")
      /\ RangeEnd(kv.mem_regions[11].phys_start, kv.mem_regions[11].size)
           = kv.hypervisor_memory.phys_start
      /\ kv.hypervisor_memory.phys_start = U64(\h7f, \h000000)
      /\ rk.mem_regions[1].phys_start
           = RangeEnd(rk.hypervisor_memory.phys_start,
                      rk.hypervisor_memory.size)
      /\ rk.mem_regions[1].phys_start = U64(\h0a, \ha00000)

(* The region entries the table lays out for the n-th IVSHMEM device.      *)
ShmemLayout(d, n) ==
  CASE d = "kv260" /\ n = 1 ->
         JAILHOUSE_SHMEM_NET_REGIONS(U64(\h60, \h000000), 0)
    [] d = "kv260" /\ n = 2 ->
         JAILHOUSE_SHMEM_NET_REGIONS(U64(\h60, \h100000), 0)
    [] d = "rk3568" /\ n = 1 -> SubSeq(rk3568_mem_regions_init, 1, 4)
    [] d = "rk3568" /\ n = 2 ->
         JAILHOUSE_SHMEM_NET_REGIONS(U64(\h0a, \hb00000), 0)

C6_IrqChips ==
  /\ descriptor["rk3568"].num_irqs = 352
  /\ descriptor["kv260"].num_irqs = 188
  /\ \A d \in RepoIds :
       /\ IrqChipsDisjoint(descriptor[d])
       /\ IrqBudgetKept(descriptor[d])
  /\ descriptor["three"].irqchips[1].pin_base < descriptor["three"].num_irqs
  /\ ~IrqBudgetKept(descriptor["three"])

(* C6 witness: validate has run on rk3568, whose third irqchip entry has   *)
(* pin_base 288 inside the budget and a pin block reaching past it, with   *)
(* line 351 assigned.                                                      *)
C6_Witness ==
  LET chip == descriptor["rk3568"].irqchips[3]
  IN  /\ ValidateRan("rk3568")
      /\ ValidateRan("kv260")
      /\ chip.pin_base < descriptor["rk3568"].num_irqs
      /\ chip.pin_base + PINS_PER_CHIP > descriptor["rk3568"].num_irqs
      /\ 351 \in AssignedLines(chip)

(* C7: in each root-cell descriptor the 4 virtual-PCI interrupt lines from *)
(* vpci_irq_base on (GIC interrupts 284..287 and 136..139) are all below   *)
(* num_irqs, and none of them is a line whose bit is set in the pin_bitmap *)
(* of any irqchip entry of the same descriptor.                            *)
C7_VpciLinesFree ==
  /\ VpciLines(descriptor["rk3568"]) = 284..287
  /\ VpciLines(descriptor["kv260"]) = 136..139
  /\ \A d \in RepoIds :
       /\ VpciInBudget(descriptor[d])
       /\ VpciNotAssigned(descriptor[d])

(* C8: in each descriptor hypervisor_memory, debug_console and every one   *)
(* of the num_memory_regions entries of mem_regions (24 for KV260, 15 for  *)
(* rk3568) has size > 0 and phys_start, virt_start and size that are       *)
(* multiples of the 4 KiB page size.                                       *)
C8_RangesNonEmptyAligned ==
  /\ descriptor["kv260"].num_memory_regions = 24
  /\ descriptor["rk3568"].num_memory_regions = 15
  /\ \A d \in RepoIds : RangesOk(descriptor[d])

(* C9: within each descriptor no two pci_devices entries have the same     *)
(* (domain, bdf) pair; two entries with equal bdf and different domains    *)
(* are no duplicate, two entries with equal domain and equal bdf are.      *)
C9_BdfUnique ==
  /\ \A d \in RepoIds : BdfUnique(descriptor[d])
  /\ descriptor["domains"].pci_devices[1].bdf
       = descriptor["domains"].pci_devices[2].bdf
  /\ BdfUnique(descriptor["domains"])
  /\ ~BdfUnique(descriptor["three"])

(* C9 witness: validate has run on both descriptors, each of which holds   *)
(* two devices of one domain with different bdf.                           *)
C9_Witness ==
  \A d \in RepoIds :
    /\ ValidateRan(d)
    /\ Len(descriptor[d].pci_devices) = 2
    /\ descriptor[d].pci_devices[1].domain
         = descriptor[d].pci_devices[2].domain
    /\ descriptor[d].pci_devices[1].bdf # descriptor[d].pci_devices[2].bdf

(* C10: the 35 qos_devices entries of the KV260 descriptor identify 35     *)
(* distinct peripherals: no two entries have the same name and no two      *)
(* entries have the same base.                                             *)
C10_QosDistinct ==
  /\ Len(descriptor["kv260"].qos_devices) = 35
  /\ QosNamesUnique(descriptor["kv260"])
  /\ QosBasesUnique(descriptor["kv260"])

(* C3: over every sequence of validate, encode and hand-to-loader steps a  *)
(* descriptor is never Encoded and never handed to the loader unless the   *)
(* last validate on it returned Ok; a descriptor for which validate        *)
(* returned a violation, as the descriptors of the repository do when an   *)
(* invariant fails on them, stays unused.                                  *)
C3_OnlyValidatedUsed ==
  /\ \A d \in DescIds :
       /\ (stage[d] = "Encoded" \/ loaded[d]) => result[d] = "Ok"
       /\ stage[d] = "Validated" => result[d] = "Ok"
       /\ result[d] = "Err" => (stage[d] = "Unvalidated" /\ ~loaded[d])
  /\ \A d \in RepoIds :
       (\E k \in InvariantIds : ~InvariantHolds(k, descriptor[d])) =>
         (stage[d] = "Unvalidated" /\ ~loaded[d])

(* C3 witness: one descriptor has gone through validate, encode and the    *)
(* loader while validate has returned violations for both descriptors of   *)
(* the repository, which are still unused.                                 *)
C3_Witness ==
  /\ \E d \in DescIds : stage[d] = "Encoded" /\ loaded[d]
  /\ \A d \in RepoIds :
       result[d] = "Err" /\ stage[d] = "Unvalidated" /\ ~loaded[d]

====
